---- MODULE Spec2Model ----
(***************************************************************************)
(* Model of the in-memory file system navigator (src/navigator.cpp).       *)
(*                                                                         *)
(* A std::string is a sequence of one-character strings, so that path       *)
(* formatting (getPath) and path parsing (splitPath) are real conversions. *)
(* A Node* is the index of the node in the heap `nodes`; nullptr is NULL.  *)
(* A std::map<std::string, unique_ptr<Node>> is a function from keys to    *)
(* node indices, iterated in ascending key order.                          *)
(*                                                                         *)
(* `last` records the most recent call: the operation, its argument, the   *)
(* error it printed ("ok" when none) and the lines it printed otherwise.   *)
(* `created` is a history variable: the (directory, name, type) of every   *)
(* create that inserted a node.  The program never reads either.           *)
(***************************************************************************)
EXTENDS Integers, Sequences, FiniteSets, TLC

VARIABLES nodes, currentDirectory, last, created

vars == <<nodes, currentDirectory, last, created>>

\* ------------------------------------------------------------------ bounds
\* Largest number of nodes the heap may hold besides the root.
MaxNodes == 3

\* ----------------------------------------------------------------- strings
Empty == <<>>
Slash == <<"/">>
Dot == <<".">>
DotDot == <<".", ".">>

\* Byte value of a character (unsigned char comparison of std::string).
Ord(c) ==
    CASE c = "." -> 46
      [] c = "/" -> 47
      [] c = "a" -> 97
      [] c = "b" -> 98

\* std::string operator< : lexicographic by bytes, a proper prefix is less.
RECURSIVE StrLess(_, _)
StrLess(s, t) ==
    IF t = <<>> THEN FALSE
    ELSE IF s = <<>> THEN TRUE
    ELSE IF Ord(Head(s)) < Ord(Head(t)) THEN TRUE
    ELSE IF Ord(Head(s)) > Ord(Head(t)) THEN FALSE
    ELSE StrLess(Tail(s), Tail(t))

\* Iteration order of a std::map: its keys in ascending order.
RECURSIVE SortedKeys(_)
SortedKeys(keys) ==
    IF keys = {} THEN <<>>
    ELSE LET least == CHOOSE k \in keys : \A o \in keys \ {k} : StrLess(k, o)
         IN <<least>> \o SortedKeys(keys \ {least})

\* ------------------------------------------------------------------- nodes
NULL == 0
ROOT == 1

\* Node::Node(name, type, parent): the children map starts empty.
Node(name, type, parent) ==
    [name |-> name, type |-> type, parent |-> parent, children |-> <<>>]

\* ----------------------------------------------------------- private helpers
\* splitPath: std::getline on '/' and keep the non-empty parts.  `part` is
\* the part being read; a part is pushed at a separator or at end of input.
RECURSIVE splitFrom(_, _)
splitFrom(rest, part) ==
    IF rest = <<>>
    THEN IF part = <<>> THEN <<>> ELSE <<part>>
    ELSE IF Head(rest) = "/"
         THEN (IF part = <<>> THEN <<>> ELSE <<part>>) \o splitFrom(Tail(rest), <<>>)
         ELSE splitFrom(Tail(rest), Append(part, Head(rest)))

splitPath(path) == splitFrom(path, <<>>)

\* Variant: every name is accepted.
isValidName_any(name) == TRUE

isValidName(name) == \A i \in 1..Len(name) : name[i] # "/"

\* Variant: the collision check never fires.
nameExists_never(name) == FALSE

nameExists(name) == name \in DOMAIN nodes[currentDirectory].children

\* Variant: a missing child ends the walk at the node reached so far.
RECURSIVE navigateToPath_partial(_, _)
navigateToPath_partial(parts, startNode) ==
    IF parts = <<>> THEN startNode
    ELSE LET part == Head(parts)
         IN IF part = DotDot
            THEN IF nodes[startNode].parent # NULL
                 THEN navigateToPath_partial(Tail(parts), nodes[startNode].parent)
                 ELSE navigateToPath_partial(Tail(parts), startNode)
            ELSE IF part # Dot
            THEN IF nodes[startNode].type # "DIRECTORY" THEN NULL
                 ELSE IF part \in DOMAIN nodes[startNode].children
                 THEN LET child == nodes[startNode].children[part]
                      IN IF nodes[child].type = "DIRECTORY"
                         THEN navigateToPath_partial(Tail(parts), child)
                         ELSE NULL
                 ELSE startNode
            ELSE navigateToPath_partial(Tail(parts), startNode)

\* Variant: the child is entered whatever its type.
RECURSIVE navigateToPath_anyChild(_, _)
navigateToPath_anyChild(parts, startNode) ==
    IF parts = <<>> THEN startNode
    ELSE LET part == Head(parts)
         IN IF part = DotDot
            THEN IF nodes[startNode].parent # NULL
                 THEN navigateToPath_anyChild(Tail(parts), nodes[startNode].parent)
                 ELSE navigateToPath_anyChild(Tail(parts), startNode)
            ELSE IF part # Dot
            THEN IF part \in DOMAIN nodes[startNode].children
                 THEN navigateToPath_anyChild(Tail(parts),
                                              nodes[startNode].children[part])
                 ELSE NULL
            ELSE navigateToPath_anyChild(Tail(parts), startNode)

RECURSIVE navigateToPath(_, _)
navigateToPath(parts, startNode) ==
    IF parts = <<>> THEN startNode
    ELSE LET part == Head(parts)
             targetNode == startNode
         IN IF part = DotDot
            THEN IF nodes[targetNode].parent # NULL
                 THEN navigateToPath(Tail(parts), nodes[targetNode].parent)
                 ELSE navigateToPath(Tail(parts), targetNode)
            ELSE IF part # Dot
            THEN IF nodes[targetNode].type # "DIRECTORY" THEN NULL
                 ELSE IF part \in DOMAIN nodes[targetNode].children
                 THEN LET child == nodes[targetNode].children[part]
                      IN IF nodes[child].type = "DIRECTORY"
                         THEN navigateToPath(Tail(parts), child)
                         ELSE NULL
                 ELSE NULL
            ELSE navigateToPath(Tail(parts), targetNode)

\* Variant: the path of a child of the root is built without the leading '/'.
RECURSIVE getPath_noLead(_)
getPath_noLead(node) ==
    IF node = ROOT THEN Slash
    ELSE IF nodes[node].parent = ROOT THEN nodes[node].name
    ELSE getPath_noLead(nodes[node].parent) \o Slash \o nodes[node].name

\* Variant: every name is followed by a separator.
RECURSIVE getPath_trailing(_)
getPath_trailing(node) ==
    IF node = ROOT THEN Slash
    ELSE IF nodes[node].parent = ROOT THEN Slash \o nodes[node].name \o Slash
    ELSE getPath_trailing(nodes[node].parent) \o nodes[node].name \o Slash

RECURSIVE getPath(_)
getPath(node) ==
    IF node = ROOT THEN Slash
    ELSE IF nodes[node].parent = ROOT THEN Slash \o nodes[node].name
    ELSE getPath(nodes[node].parent) \o Slash \o nodes[node].name

\* find_helper: the paths appended to `results` by the call on startNode.
RECURSIVE find_helper(_, _)
RECURSIVE find_children(_, _, _)
find_helper(startNode, targetName) ==
    (IF nodes[startNode].name = targetName THEN <<getPath(startNode)>> ELSE <<>>)
    \o (IF nodes[startNode].type = "DIRECTORY"
        THEN find_children(startNode, SortedKeys(DOMAIN nodes[startNode].children),
                           targetName)
        ELSE <<>>)
find_children(dir, keys, targetName) ==
    IF keys = <<>> THEN <<>>
    ELSE find_helper(nodes[dir].children[Head(keys)], targetName)
         \o find_children(dir, Tail(keys), targetName)

\* ------------------------------------------------------------------ inputs
\* Arguments of mkdir: the empty name, plain names, the two names that path
\* resolution reads as "stay" and "parent", and a name with a separator.
DirNames ==
    { Empty, <<"a">>, <<"b">>, Dot, DotDot, <<"a", "/", "b">> }

\* Arguments of touch.
FileNames == { Empty, <<"a">>, <<"a", "/", "b">> }

\* Arguments of find; "/" is the name of the root.
FindNames == { <<"a">>, <<"b">>, Slash }

\* Arguments of cd, besides the cursor's own path: the root, the empty
\* path, relative and absolute paths, repeated and trailing separators.
Paths ==
    { Slash, Empty, <<"a">>, <<"b">>, Dot, DotDot,
      <<"a", "/", "b">>, <<"/", "/", "a", "/">>, <<".", ".", "/", "b">> }

\* -------------------------------------------------------------- operations
NoCall == [op |-> "none", arg |-> Empty, res |-> "ok", out |-> <<>>]

Init ==
    /\ nodes = <<Node(Slash, "DIRECTORY", NULL)>>
    /\ currentDirectory = ROOT
    /\ last = NoCall
    /\ created = {}

\* Variant: the new node's parent is the root instead of the cursor.
Insert_parentRoot(name, type) ==
    LET id == Len(nodes) + 1
        cur == nodes[currentDirectory]
    IN Append([nodes EXCEPT ![currentDirectory].children =
                   (name :> id) @@ cur.children],
              Node(name, type, ROOT))

\* The heap after `new Node(name, type, currentDirectory)` is stored under
\* currentDirectory->children[name].
Insert(name, type) ==
    LET id == Len(nodes) + 1
        cur == nodes[currentDirectory]
    IN Append([nodes EXCEPT ![currentDirectory].children =
                   (name :> id) @@ cur.children],
              Node(name, type, currentDirectory))

\* Variant: a successful create of a directory also enters it.
create_enter(op, type, name) ==
    IF ~isValidName(name)
    THEN /\ last' = [op |-> op, arg |-> name, res |-> "InvalidName", out |-> <<>>]
         /\ UNCHANGED <<nodes, currentDirectory, created>>
    ELSE IF nameExists(name)
    THEN /\ last' = [op |-> op, arg |-> name, res |-> "AlreadyExists", out |-> <<>>]
         /\ UNCHANGED <<nodes, currentDirectory, created>>
    ELSE /\ Len(nodes) < MaxNodes + 1
         /\ nodes' = Insert(name, type)
         /\ created' = created \cup
                {[dir |-> currentDirectory, name |-> name, type |-> type]}
         /\ last' = [op |-> op, arg |-> name, res |-> "ok", out |-> <<>>]
         /\ currentDirectory' =
                IF type = "DIRECTORY" THEN Len(nodes) + 1 ELSE currentDirectory

create(op, type, name) ==
    IF ~isValidName(name)
    THEN /\ last' = [op |-> op, arg |-> name, res |-> "InvalidName", out |-> <<>>]
         /\ UNCHANGED <<nodes, currentDirectory, created>>
    ELSE IF nameExists(name)
    THEN /\ last' = [op |-> op, arg |-> name, res |-> "AlreadyExists", out |-> <<>>]
         /\ UNCHANGED <<nodes, currentDirectory, created>>
    ELSE /\ Len(nodes) < MaxNodes + 1
         /\ nodes' = Insert(name, type)
         /\ created' = created \cup
                {[dir |-> currentDirectory, name |-> name, type |-> type]}
         /\ last' = [op |-> op, arg |-> name, res |-> "ok", out |-> <<>>]
         /\ UNCHANGED currentDirectory

mkdir(dirName) == create("mkdir", "DIRECTORY", dirName)

touch(fileName) == create("touch", "FILE", fileName)

\* Variant: resolution always starts at the cursor.
cdTarget_fromCursor(path, from) ==
    IF path = Slash THEN ROOT
    ELSE navigateToPath(splitPath(path), from)

\* The node cd(path) makes current when the cursor is `from`; NULL when it
\* prints "Invalid path".  path[0] of an empty string is '\0', not '/'.
cdTarget(path, from) ==
    IF path = Slash THEN ROOT
    ELSE LET targetNode == IF path # <<>> /\ path[1] = "/" THEN ROOT ELSE from
         IN navigateToPath(splitPath(path), targetNode)

cd(path) ==
    LET targetNode == cdTarget(path, currentDirectory)
    IN /\ IF targetNode # NULL
          THEN /\ currentDirectory' = targetNode
               /\ last' = [op |-> "cd", arg |-> path, res |-> "ok", out |-> <<>>]
          ELSE /\ currentDirectory' = currentDirectory
               /\ last' = [op |-> "cd", arg |-> path, res |-> "InvalidPath",
                           out |-> <<>>]
       /\ UNCHANGED <<nodes, created>>

\* Variant: the children are listed in creation order.
lsLines_creationOrder(dir) ==
    LET ids == { nodes[dir].children[k] : k \in DOMAIN nodes[dir].children }
        nth(i) == CHOOSE n \in ids : Cardinality({m \in ids : m < n}) = i - 1
    IN [i \in 1..Cardinality(ids) |->
          IF nodes[nth(i)].type = "DIRECTORY"
          THEN nodes[nth(i)].name \o Slash ELSE nodes[nth(i)].name]

\* One printed line per child, in map order, "/" appended for a directory.
lsLines(dir) ==
    LET keys == SortedKeys(DOMAIN nodes[dir].children)
    IN [i \in 1..Len(keys) |->
          IF nodes[nodes[dir].children[keys[i]]].type = "DIRECTORY"
          THEN keys[i] \o Slash ELSE keys[i]]

ls ==
    /\ last' = [op |-> "ls", arg |-> Empty, res |-> "ok",
                out |-> lsLines(currentDirectory)]
    /\ UNCHANGED <<nodes, currentDirectory, created>>

pwd ==
    /\ last' = [op |-> "pwd", arg |-> Empty, res |-> "ok",
                out |-> <<getPath(currentDirectory)>>]
    /\ UNCHANGED <<nodes, currentDirectory, created>>

\* Variant: the search starts at the cursor.
find_fromCursor(name) ==
    /\ last' = [op |-> "find", arg |-> name, res |-> "ok",
                out |-> find_helper(currentDirectory, name)]
    /\ UNCHANGED <<nodes, currentDirectory, created>>

find(name) ==
    /\ last' = [op |-> "find", arg |-> name, res |-> "ok",
                out |-> find_helper(ROOT, name)]
    /\ UNCHANGED <<nodes, currentDirectory, created>>

Next ==
    \/ \E name \in DirNames : mkdir(name)
    \/ \E name \in FileNames : touch(name)
    \/ \E path \in Paths \cup {getPath(currentDirectory)} : cd(path)
    \/ ls
    \/ pwd
    \/ \E name \in FindNames : find(name)

Spec == Init /\ [][Next]_vars

\* ================================================================== claims
isCreate(call) == call.op \in {"mkdir", "touch"}

childrenOf(n) == nodes[n].children

\* The segments of a path: its maximal runs of characters other than '/'.
SegStarts(path) ==
    { i \in 1..Len(path) : path[i] # "/" /\ (i = 1 \/ path[i - 1] = "/") }

SegEnd(path, i) ==
    CHOOSE j \in i..Len(path) :
        /\ \A k \in i..j : path[k] # "/"
        /\ (j = Len(path) \/ path[j + 1] = "/")

RECURSIVE Ascending(_)
Ascending(S) ==
    IF S = {} THEN <<>>
    ELSE LET m == CHOOSE x \in S : \A y \in S : x <= y
         IN <<m>> \o Ascending(S \ {m})

RefSegments(path) ==
    LET starts == Ascending(SegStarts(path))
    IN [k \in 1..Len(starts) |-> SubSeq(path, starts[k], SegEnd(path, starts[k]))]

\* One resolution step of the reference algorithm; NULL is failure.
RefStep(n, seg) ==
    IF seg = Dot THEN n
    ELSE IF seg = DotDot THEN (IF nodes[n].parent = NULL THEN n ELSE nodes[n].parent)
    ELSE IF /\ nodes[n].type = "DIRECTORY"
            /\ seg \in DOMAIN childrenOf(n)
            /\ nodes[childrenOf(n)[seg]].type = "DIRECTORY"
         THEN childrenOf(n)[seg]
         ELSE NULL

RECURSIVE RefWalk(_, _, _)
RefWalk(segs, k, n) ==
    IF k > Len(segs) THEN n
    ELSE LET m == RefStep(n, segs[k])
         IN IF m = NULL THEN NULL ELSE RefWalk(segs, k + 1, m)

RefResolve(path, cursor) ==
    IF path = Slash THEN ROOT
    ELSE RefWalk(RefSegments(path), 1,
                 IF Len(path) > 0 /\ Head(path) = "/" THEN ROOT ELSE cursor)

\* Nodes reachable from the root through children mappings.
RECURSIVE Below(_)
Below(n) ==
    {n} \cup UNION { Below(childrenOf(n)[k]) : k \in DOMAIN childrenOf(n) }

C3_NeverOverwrite ==
    [][ (isCreate(last') /\ last'.arg \in DOMAIN childrenOf(currentDirectory))
        => /\ last'.res = "AlreadyExists"
           /\ nodes' = nodes
           /\ currentDirectory' = currentDirectory ]_vars

\* createFile refused on the name of an existing, non-empty Directory.
C3_Witness ==
    /\ last.op = "touch" /\ last.res = "AlreadyExists"
    /\ last.arg \in DOMAIN childrenOf(currentDirectory)
    /\ LET n == nodes[childrenOf(currentDirectory)[last.arg]]
       IN n.type = "DIRECTORY" /\ DOMAIN n.children # {}

\* C4: a create with the empty name reports InvalidName, and no node other
\* than the root has an empty name.
C4_EmptyNameRejected ==
    /\ (isCreate(last) /\ last.arg = Empty) => last.res = "InvalidName"
    /\ \A n \in 2..Len(nodes) : nodes[n].name # Empty

\* C5: a create whose name contains '/' reports InvalidName and changes
\* neither the tree nor the cursor.
C5_SeparatorRejected ==
    [][ (isCreate(last') /\ \E i \in 1..Len(last'.arg) : last'.arg[i] = "/")
        => /\ last'.res = "InvalidName"
           /\ nodes' = nodes
           /\ currentDirectory' = currentDirectory ]_vars

\* createDirectory("a/b") was refused and the cursor has no child "a".
C5_Witness ==
    /\ last.op = "mkdir" /\ last.res = "InvalidName"
    /\ last.arg = <<"a", "/", "b">>
    /\ <<"a">> \notin DOMAIN childrenOf(currentDirectory)
    /\ Len(nodes) > 1

KeyLess(s, t) ==
    \E i \in 1..(Len(t)) :
        /\ \A k \in 1..(i - 1) : k <= Len(s) /\ s[k] = t[k]
        /\ (i > Len(s) \/ (i <= Len(s) /\ Ord(s[i]) < Ord(t[i])))

\* The keys of a directory, each at the rank given by the keys below it.
KeysAscending(n) ==
    LET K == DOMAIN childrenOf(n)
    IN [i \in 1..Cardinality(K) |->
          CHOOSE k \in K : Cardinality({o \in K : KeyLess(o, k)}) = i - 1]

\* All nodes in depth-first pre-order, children in ascending key order.
RECURSIVE PreOrder(_)
RECURSIVE PreOrderOf(_, _, _)
PreOrder(n) == <<n>> \o PreOrderOf(n, KeysAscending(n), 1)
PreOrderOf(n, keys, i) ==
    IF i > Len(keys) THEN <<>>
    ELSE PreOrder(childrenOf(n)[keys[i]]) \o PreOrderOf(n, keys, i + 1)

\* The nodes from the root's child down to n.
RECURSIVE Chain(_)
Chain(n) == IF n = ROOT THEN <<>> ELSE Append(Chain(nodes[n].parent), n)

RECURSIVE Joined(_, _)
Joined(chain, i) ==
    IF i > Len(chain) THEN <<>>
    ELSE Slash \o nodes[chain[i]].name \o Joined(chain, i + 1)

AbsPath(n) == IF n = ROOT THEN Slash ELSE Joined(Chain(n), 1)

RefFind(name) ==
    LET order == PreOrder(ROOT)
        hits == SelectSeq(order, LAMBDA n : nodes[n].name = name)
    IN [i \in 1..Len(hits) |-> AbsPath(hits[i])]

\* C7: find(name) returns the absolute paths of exactly the nodes of the
\* whole tree named name, in depth-first pre-order with ascending children.
C7_FindIsPreOrderMatches ==
    last.op = "find" => last.out = RefFind(last.arg)

\* find("b") from a non-root cursor reported a nested match before a match
\* at the root that was created earlier.
C7_Witness ==
    /\ last.op = "find" /\ last.arg = <<"b">>
    /\ currentDirectory # ROOT
    /\ last.out = << <<"/", "a", "/", "b">>, <<"/", "b">> >>
    /\ childrenOf(ROOT)[<<"b">>] < childrenOf(ROOT)[<<"a">>]

\* The entry a printed line stands for.
IsDirLine(l) == Len(l) > 0 /\ l[Len(l)] = "/"
NameOfLine(l) == IF IsDirLine(l) THEN SubSeq(l, 1, Len(l) - 1) ELSE l
Render(e) == IF e.type = "DIRECTORY" THEN e.name \o Slash ELSE e.name

C8_EmptyWitness ==
    last.op = "ls" /\ last.out = <<>> /\ currentDirectory # ROOT

\* C9: changeDirectory(currentPath()) succeeds and leaves the cursor alone.
C9_CdCurrentPathIdempotent ==
    [][ (last'.op = "cd" /\ last'.arg = getPath(currentDirectory))
        => (last'.res = "ok" /\ currentDirectory' = currentDirectory) ]_vars

\* cd was called with the cursor's own two-level path.
C9_Witness ==
    /\ last.op = "cd" /\ last.res = "ok"
    /\ last.arg = getPath(currentDirectory)
    /\ currentDirectory # ROOT
    /\ nodes[currentDirectory].parent # ROOT

\* C10: entering any Directory child of the cursor by its name and then
\* changing to ".." succeeds twice and brings the cursor back; ".." at the
\* root stays at the root.
C10_EnterThenUpReturns ==
    /\ \A name \in DOMAIN childrenOf(currentDirectory) :
          nodes[childrenOf(currentDirectory)[name]].type = "DIRECTORY"
          => LET d == cdTarget(name, currentDirectory)
             IN /\ d # NULL
                /\ cdTarget(DotDot, d) = currentDirectory
    /\ cdTarget(DotDot, ROOT) = ROOT

\* C11: the cursor moves only in a successful changeDirectory; the creates
\* never move it, changeDirectory never changes a node, and list, find and
\* currentPath change neither the tree nor the cursor.
C11_FrameEffects ==
    [][ /\ currentDirectory' # currentDirectory
           => (last'.op = "cd" /\ last'.res = "ok")
        /\ isCreate(last') => currentDirectory' = currentDirectory
        /\ last'.op = "cd" => nodes' = nodes
        /\ last'.op \in {"ls", "find", "pwd"}
           => (nodes' = nodes /\ currentDirectory' = currentDirectory) ]_vars

\* A directory was just created under a non-root cursor, which stayed put.
C11_Witness ==
    /\ last.op = "mkdir" /\ last.res = "ok"
    /\ currentDirectory # ROOT
    /\ nodes[Len(nodes)].parent = currentDirectory
    /\ nodes[Len(nodes)].type = "DIRECTORY"

\* C12: currentPath() is "/" at the root and otherwise '/' followed by the
\* names from the root's child down to the cursor joined by single '/',
\* with no trailing separator; after createDirectory(d), changeDirectory(d)
\* on a fresh tree it is "/" followed by d.
C12_CurrentPathIsJoinedChain ==
    last.op = "pwd"
    => /\ last.out = <<AbsPath(currentDirectory)>>
       /\ currentDirectory = ROOT => last.out = <<Slash>>
       /\ currentDirectory # ROOT
          => /\ last.out[1][Len(last.out[1])] # "/"
             /\ \A i \in 1..(Len(last.out[1]) - 1) :
                   ~(last.out[1][i] = "/" /\ last.out[1][i + 1] = "/")
       /\ (Len(nodes) = 2 /\ currentDirectory = 2)
          => last.out = <<Slash \o nodes[2].name>>

\* currentPath() printed "/a/b" for a cursor two levels down.
C12_Witness ==
    /\ last.op = "pwd"
    /\ last.out = << <<"/", "a", "/", "b">> >>
    /\ nodes[currentDirectory].parent # ROOT

\* The (directory, key) pairs whose mapping holds node n.
HoldersOf(n) ==
    { <<m, k>> \in (1..Len(nodes)) \X { nodes[i].name : i \in 1..Len(nodes) } :
        k \in DOMAIN childrenOf(m) /\ childrenOf(m)[k] = n }

\* C13: the root is a Directory without parent; every other node has a
\* Directory parent and sits in exactly one children mapping, its parent's,
\* under its own name; Files have no children.
C13_TreeIsConsistent ==
    /\ nodes[ROOT].type = "DIRECTORY" /\ nodes[ROOT].parent = NULL
    /\ HoldersOf(ROOT) = {}
    /\ \A n \in 2..Len(nodes) :
          /\ nodes[n].parent \in 1..Len(nodes)
          /\ nodes[nodes[n].parent].type = "DIRECTORY"
          /\ HoldersOf(n) = { <<nodes[n].parent, nodes[n].name>> }
    /\ \A m \in 1..Len(nodes) :
          /\ \A k \in DOMAIN childrenOf(m) : childrenOf(m)[k] \in 2..Len(nodes)
          /\ nodes[m].type = "FILE" => DOMAIN childrenOf(m) = {}

\* A tree with a File and with a node two levels below the root.
C13_Witness ==
    /\ Len(nodes) = 4
    /\ \E n \in 2..Len(nodes) : nodes[n].type = "FILE"
    /\ \E n \in 2..Len(nodes) : nodes[n].parent # ROOT

\* C14: any two distinct nodes of the tree have different getPath strings.
C14_PathsAreUnique ==
    \A m, n \in 1..Len(nodes) : m # n => getPath(m) # getPath(n)

\* C15: changeDirectory(getPath(D)) moves the cursor to D for every created
\* Directory D, and right after a successful createDirectory(name),
\* changeDirectory(name) moves the cursor to the new directory.
C15_EveryDirectoryCanBeEntered ==
    /\ \A D \in 2..Len(nodes) :
          nodes[D].type = "DIRECTORY"
          => cdTarget(getPath(D), currentDirectory) = D
    /\ (last.op = "mkdir" /\ last.res = "ok")
       => cdTarget(last.arg, currentDirectory) = childrenOf(currentDirectory)[last.arg]

====
